---- MODULE Spec2Model ----
(***************************************************************************)
(* Vector-store service (main.py): the in-memory registry VECTOR_STORES,   *)
(* the Qdrant collections behind it, and the HTTP handlers that run on a   *)
(* pool of worker threads.  A handler is split at its blocking calls to    *)
(* the vector database; the Python code between two such calls is one      *)
(* step.  Calls to the parser and the embedder touch no shared state and   *)
(* are part of the step that issues them.                                  *)
(***************************************************************************)
EXTENDS Bags, FiniteSets, Integers, Sequences, TLC

(* ---------------------------- bounds ----------------------------------- *)
\* worker threads of the pool serving the synchronous handlers
MaxThreads == 2
\* requests the service accepts in one run
MaxRequests == 4
\* largest page number a parser element carries
MaxPageNo == 2
\* longest "elements" list of a parser response
MaxElements == 2
\* injected failures of the vector database (transport or server side)
MaxFaults == 1
\* largest top_k of a query
MaxTopK == 1

(* ------------------------- request inputs ------------------------------ *)
\* length of the vectors the embedding model returns
EmbedDim == 4096
Threads == 1..MaxThreads
\* the dimensions a create asks for: the embedder's, and one that is not
Dims == {EmbedDim, EmbedDim \div 2}
Distances == {"Cosine", "Dot"}
Filenames == {"test.pdf", "b.pdf"}
None == "None"

VARIABLES
    VECTOR_STORES,   \* the keys of the registry dict, in insertion order
    heap,            \* store id -> the metadata dict object registered under it
    colls,           \* Qdrant: collection name -> collection
    uuid,            \* next value uuid4 hands out as a store id or file id
    qdrant_faults,   \* failures of the vector database injected so far
    requests,        \* requests accepted so far
    th               \* thread -> the request it serves and its local variables

vars == <<VECTOR_STORES, heap, colls, uuid, qdrant_faults, requests, th>>

(* ------------------------- Qdrant (qdrant_client) ---------------------- *)
\* The outcome of a call is [err, colls]: err = None when the call returned,
\* otherwise the exception it raised; colls is the database afterwards.
NoIndex == {}

\* coll_name = f"vs_{store_id}"
CollName(store_id) == <<"vs_", store_id>>

NewCollection(size, distance) ==
    [size |-> size, distance |-> distance, indexed |-> NoIndex, points |-> EmptyBag]

\* recreate_collection done as an update of the vector parameters of the
\* collection when it exists, which keeps its points
UpdateParamsInPlace(c, name, size, distance) ==
    [err |-> None,
     colls |-> [n \in DOMAIN c \cup {name} |->
                  IF n # name THEN c[n]
                  ELSE IF name \in DOMAIN c
                       THEN [c[n] EXCEPT !.size = size, !.distance = distance,
                                         !.indexed = NoIndex]
                       ELSE NewCollection(size, distance)]]

\* qdrant.recreate_collection: drops the collection when it exists, then
\* creates it empty with the given vector parameters
recreate_collection(c, name, size, distance) ==
    [err |-> None,
     colls |-> [n \in DOMAIN c \cup {name} |->
                  IF n = name THEN NewCollection(size, distance) ELSE c[n]]]

\* qdrant.delete_collection: no error when the collection is absent
delete_collection(c, name) ==
    [err |-> None, colls |-> [n \in DOMAIN c \ {name} |-> c[n]]]

\* qdrant.create_payload_index(field_name="file", field_schema="keyword")
create_payload_index(c, name, field) ==
    IF name \notin DOMAIN c
    THEN [err |-> "NotFound", colls |-> c]
    ELSE [err |-> None, colls |-> [c EXCEPT ![name].indexed = @ \cup {field}]]

\* the payloads of a list of PointStructs, as a bag (point ids are fresh
\* uuid4 values, so two points never merge)
RECURSIVE PointsBag(_)
PointsBag(points) ==
    IF points = <<>> THEN EmptyBag
    ELSE SetToBag({Head(points)}) (+) PointsBag(Tail(points))

\* qdrant.upsert: every vector must have the collection's size
upsert(c, name, points, dim) ==
    IF name \notin DOMAIN c THEN [err |-> "NotFound", colls |-> c]
    ELSE IF c[name].size # dim THEN [err |-> "WrongDim", colls |-> c]
    ELSE [err |-> None,
          colls |-> [c EXCEPT ![name].points = @ (+) PointsBag(points)]]

\* the filtered delete with a payload key no point carries ("filename" for
\* "file"): it matches nothing
DeleteByWrongKey(c, name, value) ==
    IF name \notin DOMAIN c THEN [err |-> "NotFound", colls |-> c]
    ELSE [err |-> None, colls |-> c]

\* the filtered delete with a second condition, page = 0: it leaves the
\* points of the file's later pages
DeleteFirstPageOnly(c, name, value) ==
    IF name \notin DOMAIN c THEN [err |-> "NotFound", colls |-> c]
    ELSE [err |-> None,
          colls |-> [c EXCEPT ![name].points =
                       [p \in {q \in DOMAIN @ : q.file # value \/ q.page # 0} |-> @[p]]]]

\* qdrant.delete with Filter(must=[FieldCondition(key="file", match=value)])
delete(c, name, value) ==
    IF name \notin DOMAIN c THEN [err |-> "NotFound", colls |-> c]
    ELSE [err |-> None,
          colls |-> [c EXCEPT ![name].points =
                       [p \in {q \in DOMAIN @ : q.file # value} |-> @[p]]]]

Min(a, b) == IF a < b THEN a ELSE b

\* qdrant.search: the possible hit lists, each the payloads of `limit` points
\* of the collection (fewer when it holds fewer); which points score highest
\* depends on the vectors, which are not modelled
search(c, name, dim, limit) ==
    IF name \notin DOMAIN c THEN {[err |-> "NotFound", hits |-> EmptyBag]}
    ELSE IF c[name].size # dim THEN {[err |-> "WrongDim", hits |-> EmptyBag]}
    ELSE {[err |-> None, hits |-> h] :
            h \in {b \in SubBag(c[name].points) :
                     BagCardinality(b) = Min(limit, BagCardinality(c[name].points))}}

\* What one call can do: what the database answers, or a failure of the
\* transport or the server, after which the call's effect may or may not (or,
\* for a compound call, only partly) have been applied.
Calls(c, result, partial) ==
    {[err |-> result.err, colls |-> result.colls, fault |-> FALSE]}
    \cup {[err |-> "Unavailable", colls |-> x, fault |-> TRUE] :
            x \in {c, result.colls} \cup partial}

Inject(o) ==
    /\ o.fault => qdrant_faults < MaxFaults
    /\ qdrant_faults' = qdrant_faults + (IF o.fault THEN 1 ELSE 0)
    /\ colls' = o.colls

(* --------------------------- threads ----------------------------------- *)
Idle ==
    [pc |-> "idle", op |-> None, sid |-> 0, fid |-> 0, name |-> None,
     dimension |-> 0, distance |-> None, filename |-> None, pages |-> <<>>,
     embedded |-> <<>>, idx |-> 0,
     points |-> <<>>, top_k |-> 0, calls |-> 0, status |-> 0, err |-> None,
     body |-> <<>>]

Free(t) == th[t].pc \in {"idle", "done"}

\* The ids a caller can name: those uuid4 has handed out, and one it has not
\* (ids that were never handed out are all alike).
Ids == 1..uuid

\* the next request goes to a free thread of the pool (the threads are
\* interchangeable: the first free one)
Accept(t) ==
    /\ Free(t)
    /\ \A u \in 1..(t - 1) : ~Free(u)
    /\ requests < MaxRequests
    /\ requests' = requests + 1

\* the request is answered: status code, the exception that was caught (None
\* when none was) and the response body; the request body and the handler's
\* locals die, except the path parameters, the name and the distance of the
\* request body, the file name and the points handed to upsert
Done(r, status, err, body) ==
    [Idle EXCEPT !.pc = "done", !.op = r.op, !.sid = r.sid, !.fid = r.fid,
                 !.name = r.name, !.distance = r.distance,
                 !.filename = r.filename, !.points = r.points, !.calls = r.calls,
                 !.status = status, !.err = err, !.body = body]

HTTPException(status_code, detail) == [status |-> status_code, detail |-> detail]

Raise(t, r, exc, err) ==
    th' = [th EXCEPT ![t] = Done(r, exc.status, err, [detail |-> exc.detail])]

Return(t, r, status, body) ==
    th' = [th EXCEPT ![t] = Done(r, status, None, body)]

\* key in d, for the key order of a dict
Has(seq, x) == \E i \in 1..Len(seq) : seq[i] = x

\* VECTOR_STORES.get(store_id) is not None
Registered(store_id) == Has(VECTOR_STORES, store_id)

\* the key order of a dict after d[x] = ...: a new key goes last
SetKey(seq, x) == IF Has(seq, x) THEN seq ELSE Append(seq, x)

Remove(seq, x) == SelectSeq(seq, LAMBDA y : y # x)

NoFiles == [f \in {} |-> None]

(* ------------------------- create_vector_store ------------------------- *)
\* the registry entry written with the request model's default distance
\* instead of req.distance
DefaultDistanceMeta(name, coll_name, dimension, distance) ==
    [name |-> name, collection |-> coll_name, dimension |-> dimension,
     distance |-> "Cosine", files |-> NoFiles]

NewMeta(name, coll_name, dimension, distance) ==
    [name |-> name, collection |-> coll_name, dimension |-> dimension,
     distance |-> distance, files |-> NoFiles]

\* create_vector_store with the registration moved up, before the payload
\* index is built
RegisterBeforeIndex(t) ==
    /\ Accept(t)
    /\ \E name \in {"pytest_store"}, dimension \in Dims, distance \in Distances :
         LET store_id == uuid
             r == [Idle EXCEPT !.op = "create_vector_store", !.sid = store_id,
                               !.name = name, !.dimension = dimension,
                               !.distance = distance, !.calls = 1]
         IN \E o \in Calls(colls,
                           recreate_collection(colls, CollName(store_id), dimension, distance),
                           {}) :
              /\ Inject(o)
              /\ uuid' = uuid + 1
              /\ IF o.err = None
                 THEN /\ th' = [th EXCEPT ![t] = [r EXCEPT !.pc = "c_index"]]
                      /\ VECTOR_STORES' = SetKey(VECTOR_STORES, store_id)
                      /\ heap' = [s \in DOMAIN heap \cup {store_id} |->
                                    IF s = store_id
                                    THEN NewMeta(name, CollName(store_id), dimension, distance)
                                    ELSE heap[s]]
                 ELSE /\ Raise(t, r, HTTPException(500, "Failed to create vector store"), o.err)
                      /\ UNCHANGED <<VECTOR_STORES, heap>>

\* store_id = uuid4(); qdrant.recreate_collection(...)
CreateRecreate(t) ==
    /\ Accept(t)
    /\ \E name \in {"pytest_store"}, dimension \in Dims, distance \in Distances :
         LET store_id == uuid
             r == [Idle EXCEPT !.op = "create_vector_store", !.sid = store_id,
                               !.name = name, !.dimension = dimension,
                               !.distance = distance, !.calls = 1]
         IN \E o \in Calls(colls,
                           recreate_collection(colls, CollName(store_id), dimension, distance),
                           {delete_collection(colls, CollName(store_id)).colls}) :
              /\ Inject(o)
              /\ uuid' = uuid + 1
              /\ IF o.err = None
                 THEN th' = [th EXCEPT ![t] = [r EXCEPT !.pc = "c_index"]]
                 ELSE Raise(t, r, HTTPException(500, "Failed to create vector store"), o.err)
              /\ UNCHANGED <<VECTOR_STORES, heap>>

\* qdrant.create_payload_index(coll_name, "file", "keyword")
CreateIndex(t) ==
    /\ UNCHANGED requests
    /\ th[t].pc = "c_index"
    /\ LET r == [th[t] EXCEPT !.calls = @ + 1]
       IN \E o \in Calls(colls, create_payload_index(colls, CollName(r.sid), "file"), {}) :
            /\ Inject(o)
            /\ IF o.err = None
               THEN th' = [th EXCEPT ![t] = [r EXCEPT !.pc = "c_register"]]
               ELSE Raise(t, r, HTTPException(500, "Failed to create vector store"), o.err)
            /\ UNCHANGED <<VECTOR_STORES, heap, uuid>>

\* VECTOR_STORES[store_id] = {...}; return {"id": store_id, "name": req.name}
CreateRegister(t) ==
    /\ UNCHANGED requests
    /\ th[t].pc = "c_register"
    /\ LET r == th[t]
       IN /\ VECTOR_STORES' = Append(Remove(VECTOR_STORES, r.sid), r.sid)
          /\ heap' = [s \in DOMAIN heap \cup {r.sid} |->
                        IF s = r.sid
                        THEN NewMeta(r.name, CollName(r.sid), r.dimension, r.distance)
                        ELSE heap[s]]
          /\ Return(t, r, 201, [id |-> r.sid, name |-> r.name])
    /\ UNCHANGED <<colls, uuid, qdrant_faults>>

(* ------------------------- update_vector_store ------------------------- *)
\* {"id": store_id, **meta}
Full(store_id, meta) ==
    [id |-> store_id, name |-> meta.name, collection |-> meta.collection,
     dimension |-> meta.dimension, distance |-> meta.distance, files |-> meta.files]

\* if req.name: meta["name"] = req.name
Rename(meta, name) == IF name \notin {None, ""} THEN [meta EXCEPT !.name = name] ELSE meta

\* meta = VECTOR_STORES.get(store_id); rename; decide on the distance change
UpdateStart(t) ==
    /\ Accept(t)
    /\ \E store_id \in Ids :
         LET q == [Idle EXCEPT !.op = "update_vector_store", !.sid = store_id]
         IN IF ~Registered(store_id)
            THEN /\ Raise(t, q, HTTPException(404, "Vector store not found"), None)
                 /\ UNCHANGED heap
            ELSE \E name \in {"updated_pytest", "", None}, distance \in Distances \cup {None} :
                 LET r == [q EXCEPT !.name = name, !.distance = distance]
                     meta == Rename(heap[store_id], name)
                 IN /\ heap' = [heap EXCEPT ![store_id] = meta]
                    /\ IF distance # None /\ distance # meta.distance
                       THEN th' = [th EXCEPT ![t] = [r EXCEPT !.pc = "u_recreate"]]
                       ELSE Return(t, r, 200, Full(store_id, meta))
    /\ UNCHANGED <<VECTOR_STORES, colls, uuid, qdrant_faults>>

\* update_vector_store recreating the collection with the embedder's vector
\* length instead of meta["dimension"]
RecreateWithEmbedDim(t) ==
    /\ UNCHANGED requests
    /\ th[t].pc = "u_recreate"
    /\ LET r == [th[t] EXCEPT !.calls = @ + 1]
           meta == heap[r.sid]
       IN \E o \in Calls(colls,
                         recreate_collection(colls, meta.collection, EmbedDim, r.distance),
                         {delete_collection(colls, meta.collection).colls}) :
            /\ Inject(o)
            /\ IF o.err = None
               THEN th' = [th EXCEPT ![t] = [r EXCEPT !.pc = "u_index"]]
               ELSE Raise(t, r, HTTPException(500, "Failed to update vector store"), o.err)
    /\ UNCHANGED <<VECTOR_STORES, heap, uuid>>

\* qdrant.recreate_collection(meta["collection"], size=meta["dimension"], distance=req.distance)
UpdateRecreate(t) ==
    /\ UNCHANGED requests
    /\ th[t].pc = "u_recreate"
    /\ LET r == [th[t] EXCEPT !.calls = @ + 1]
           meta == heap[r.sid]
       IN \E o \in Calls(colls,
                         recreate_collection(colls, meta.collection, meta.dimension, r.distance),
                         {delete_collection(colls, meta.collection).colls}) :
            /\ Inject(o)
            /\ IF o.err = None
               THEN th' = [th EXCEPT ![t] = [r EXCEPT !.pc = "u_index"]]
               ELSE Raise(t, r, HTTPException(500, "Failed to update vector store"), o.err)
    /\ UNCHANGED <<VECTOR_STORES, heap, uuid>>

\* qdrant.create_payload_index(meta["collection"], "file", "keyword")
UpdateIndex(t) ==
    /\ UNCHANGED requests
    /\ th[t].pc = "u_index"
    /\ LET r == [th[t] EXCEPT !.calls = @ + 1]
       IN \E o \in Calls(colls, create_payload_index(colls, heap[r.sid].collection, "file"), {}) :
            /\ Inject(o)
            /\ IF o.err = None
               THEN th' = [th EXCEPT ![t] = [r EXCEPT !.pc = "u_distance"]]
               ELSE Raise(t, r, HTTPException(500, "Failed to update vector store"), o.err)
    /\ UNCHANGED <<VECTOR_STORES, heap, uuid>>

\* meta["distance"] = req.distance; return {"id": store_id, **meta}
UpdateDistance(t) ==
    /\ UNCHANGED requests
    /\ th[t].pc = "u_distance"
    /\ LET r == th[t]
           meta == [heap[r.sid] EXCEPT !.distance = r.distance]
       IN /\ heap' = [heap EXCEPT ![r.sid] = meta]
          /\ Return(t, r, 200, Full(r.sid, meta))
    /\ UNCHANGED <<VECTOR_STORES, colls, uuid, qdrant_faults>>

(* ------------------------- delete_vector_store ------------------------- *)
\* VECTOR_STORES.pop(store_id, None)
Pop(stores, store_id) == Remove(stores, store_id)

\* delete_vector_store dropping the collection of the id it was given before
\* it looks the id up
DropBeforeLookup(t) ==
    /\ Accept(t)
    /\ \E store_id \in Ids :
         LET r == [Idle EXCEPT !.op = "delete_vector_store", !.sid = store_id]
         IN /\ colls' = delete_collection(colls, CollName(store_id)).colls
            /\ IF ~Registered(store_id)
               THEN /\ Raise(t, r, HTTPException(404, "Vector store not found"), None)
                    /\ UNCHANGED VECTOR_STORES
               ELSE /\ VECTOR_STORES' = Pop(VECTOR_STORES, store_id)
                    /\ th' = [th EXCEPT ![t] = [r EXCEPT !.pc = "d_drop"]]
    /\ UNCHANGED <<heap, uuid, qdrant_faults>>

\* meta = VECTOR_STORES.pop(store_id, None)
DeleteStart(t) ==
    /\ Accept(t)
    /\ \E store_id \in Ids :
         LET r == [Idle EXCEPT !.op = "delete_vector_store", !.sid = store_id]
         IN IF ~Registered(store_id)
            THEN /\ Raise(t, r, HTTPException(404, "Vector store not found"), None)
                 /\ UNCHANGED VECTOR_STORES
            ELSE /\ VECTOR_STORES' = Pop(VECTOR_STORES, store_id)
                 /\ th' = [th EXCEPT ![t] = [r EXCEPT !.pc = "d_drop"]]
    /\ UNCHANGED <<heap, colls, uuid, qdrant_faults>>

\* qdrant.delete_collection(meta["collection"])
DeleteDrop(t) ==
    /\ UNCHANGED requests
    /\ th[t].pc = "d_drop"
    /\ LET r == [th[t] EXCEPT !.calls = @ + 1]
       IN \E o \in Calls(colls, delete_collection(colls, heap[r.sid].collection), {}) :
            /\ Inject(o)
            /\ IF o.err = None
               THEN Return(t, r, 200, [status |-> "deleted"])
               ELSE Raise(t, r, HTTPException(500, "Failed to delete vector store"), o.err)
    /\ UNCHANGED <<VECTOR_STORES, heap, uuid>>

(* ------------------------------ upload_file ---------------------------- *)
\* What the document parser can answer: a transport error or a non-2xx
\* status, a JSON body with a list of elements ({"page", "content": {"html"}},
\* html TRUE for a non-empty string), or a JSON body with only a top-level
\* "content" object ({"html", "text"}).
Elements == [page : 1..MaxPageNo, html : BOOLEAN]

ElementLists == UNION {[1..n -> Elements] : n \in 1..MaxElements}

ParserResponses ==
    {[kind |-> "HTTPError", elements |-> <<>>, html |-> FALSE, text |-> FALSE]}
    \cup {[kind |-> "json", elements |-> es, html |-> FALSE, text |-> FALSE] :
            es \in ElementLists}
    \cup {[kind |-> "json", elements |-> <<>>, html |-> h, text |-> x] :
            h \in BOOLEAN, x \in BOOLEAN}

\* pages_map: the page numbers that got at least one non-empty html
PagesMap(elements) ==
    {elements[i].page : i \in {j \in 1..Len(elements) : elements[j].html}}

\* The list of page texts extracted from a parser response: one text for
\* each key of pages_map, or the whole-document text.  The texts go to the
\* embedder only, so each is "text" here.
Pages(resp) ==
    IF Len(resp.elements) > 0
    THEN [i \in 1..Cardinality(PagesMap(resp.elements)) |-> "text"]
    ELSE IF resp.html \/ resp.text THEN <<"text">> ELSE <<>>

\* meta = VECTOR_STORES.get(store_id); file.file.read(); document parsing
UploadStart(t) ==
    /\ Accept(t)
    /\ \E store_id \in Ids :
         LET q == [Idle EXCEPT !.op = "upload_file", !.sid = store_id]
         IN IF ~Registered(store_id)
            THEN Raise(t, q, HTTPException(404, "Vector store not found"), None)
            ELSE \E readable \in BOOLEAN :
                 IF ~readable
                 THEN Raise(t, q, HTTPException(400, "Invalid file upload"), "ReadError")
                 ELSE \E filename \in Filenames, resp \in ParserResponses :
                      LET r == [q EXCEPT !.filename = filename]
                      IN IF resp.kind = "HTTPError"
                         THEN Raise(t, r, HTTPException(500, "Document parsing failed"), "HTTPError")
                         ELSE IF Pages(resp) = <<>>
                         THEN Raise(t, r, HTTPException(500, "Document parsing failed"), "ValueError")
                         ELSE th' = [th EXCEPT ![t] =
                                       [r EXCEPT !.pc = "up_embed", !.pages = Pages(resp)]]
    /\ UNCHANGED <<VECTOR_STORES, heap, colls, uuid, qdrant_faults>>

\* PointStruct(id=uuid4(), vector=vector, payload={"file": filename, "page": idx})
PointStruct(filename, idx) == [file |-> filename, page |-> idx]

\* the embedding loop numbering a point by its place among the points built
\* so far, not by the page's index
RECURSIVE EmbedPagesRenumbered(_, _, _, _)
EmbedPagesRenumbered(filename, pages, embedded, idx) ==
    IF Len(pages) = 0 THEN <<>>
    ELSE LET rest == EmbedPagesRenumbered(filename, SubSeq(pages, 1, Len(pages) - 1),
                                          SubSeq(embedded, 1, Len(pages) - 1), idx)
         IN IF embedded[Len(pages)]
            THEN Append(rest, [file |-> filename, page |-> idx + Len(rest)])
            ELSE rest

\* points after `for idx, text in enumerate(pages)` from turn idx on:
\* embedded[idx + 1] tells whether the embedding call of page idx returned
RECURSIVE EmbedPages(_, _, _, _)
EmbedPages(filename, pages, embedded, idx) ==
    IF idx >= Len(pages) THEN <<>>
    ELSE (IF embedded[idx + 1] THEN <<PointStruct(filename, idx)>> ELSE <<>>)
         \o EmbedPages(filename, pages, embedded, idx + 1)

\* the embedding loop, and the check that follows it
UploadEmbed(t) ==
    /\ UNCHANGED requests
    /\ th[t].pc = "up_embed"
    /\ \E embedded \in [1..Len(th[t].pages) -> BOOLEAN] :
         LET r == [th[t] EXCEPT !.embedded = embedded,
                                !.points =
                                    EmbedPages(th[t].filename, th[t].pages, embedded, 0)]
         IN IF r.points = <<>>
            THEN Raise(t, r, HTTPException(500, "No embeddings generated"), None)
            ELSE th' = [th EXCEPT ![t] = [r EXCEPT !.pc = "up_upsert"]]
    /\ UNCHANGED <<VECTOR_STORES, heap, colls, uuid, qdrant_faults>>

\* {"filename": file.filename, "pages": len(pages)}
FileRecord(filename, pages) == [filename |-> filename, pages |-> Len(pages)]

\* upload_file recording the file before it knows what upsert answered
RecordBeforeUpsert(t) ==
    /\ UNCHANGED requests
    /\ th[t].pc = "up_upsert"
    /\ LET r == [th[t] EXCEPT !.calls = @ + 1, !.fid = uuid]
       IN \E o \in Calls(colls, upsert(colls, heap[r.sid].collection, r.points, EmbedDim), {}) :
            /\ Inject(o)
            /\ heap' = [heap EXCEPT ![r.sid].files =
                          [f \in DOMAIN @ \cup {r.fid} |->
                             IF f = r.fid THEN FileRecord(r.filename, r.pages) ELSE @[f]]]
            /\ uuid' = uuid + 1
            /\ IF o.err = None
               THEN Return(t, r, 201, [file_id |-> r.fid, pages |-> Len(r.pages)])
               ELSE Raise(t, r, HTTPException(500, "Failed to store embeddings"), o.err)
    /\ UNCHANGED VECTOR_STORES

\* qdrant.upsert(collection_name=meta["collection"], points=points)
UploadUpsert(t) ==
    /\ UNCHANGED requests
    /\ th[t].pc = "up_upsert"
    /\ LET r == [th[t] EXCEPT !.calls = @ + 1]
       IN \E o \in Calls(colls, upsert(colls, heap[r.sid].collection, r.points, EmbedDim), {}) :
            /\ Inject(o)
            /\ IF o.err = None
               THEN th' = [th EXCEPT ![t] = [r EXCEPT !.pc = "up_record"]]
               ELSE Raise(t, r, HTTPException(500, "Failed to store embeddings"), o.err)
    /\ UNCHANGED <<VECTOR_STORES, heap, uuid>>

\* file_id = uuid4(); meta["files"][file_id] = {...}; return {"file_id", "pages"}
UploadRecord(t) ==
    /\ UNCHANGED requests
    /\ th[t].pc = "up_record"
    /\ LET r == [th[t] EXCEPT !.fid = uuid]
           rec == FileRecord(r.filename, r.pages)
       IN /\ heap' = [heap EXCEPT ![r.sid].files =
                        [f \in DOMAIN @ \cup {r.fid} |-> IF f = r.fid THEN rec ELSE @[f]]]
          /\ uuid' = uuid + 1
          /\ Return(t, r, 201, [file_id |-> r.fid, pages |-> rec.pages])
    /\ UNCHANGED <<VECTOR_STORES, colls, qdrant_faults>>

(* ------------------------------ delete_file ---------------------------- *)
\* meta["files"].get(file_id) if meta else None
HasFile(store_id, file_id) ==
    Registered(store_id) /\ file_id \in DOMAIN heap[store_id].files

\* meta = VECTOR_STORES.get(store_id); file_meta = ...
DeleteFileStart(t) ==
    /\ Accept(t)
    /\ \E store_id \in Ids, file_id \in Ids :
         LET r == [Idle EXCEPT !.op = "delete_file", !.sid = store_id, !.fid = file_id]
         IN IF ~HasFile(store_id, file_id)
            THEN Raise(t, r, HTTPException(404, "File not found"), None)
            ELSE th' = [th EXCEPT ![t] =
                          [r EXCEPT !.pc = "df_delete",
                                    !.filename = heap[store_id].files[file_id].filename]]
    /\ UNCHANGED <<VECTOR_STORES, heap, colls, uuid, qdrant_faults>>

\* delete_file removing the record before it knows what the filtered delete
\* answered
UnrecordBeforeDelete(t) ==
    /\ UNCHANGED requests
    /\ th[t].pc = "df_delete"
    /\ LET r == [th[t] EXCEPT !.calls = @ + 1]
       IN \E o \in Calls(colls, delete(colls, heap[r.sid].collection, r.filename), {}) :
            /\ Inject(o)
            /\ heap' = [heap EXCEPT ![r.sid].files = [f \in DOMAIN @ \ {r.fid} |-> @[f]]]
            /\ IF o.err = None
               THEN Return(t, r, 200, [status |-> "deleted"])
               ELSE Raise(t, r, HTTPException(500, "Failed to delete file vectors"), o.err)
    /\ UNCHANGED <<VECTOR_STORES, uuid>>

\* qdrant.delete(meta["collection"], Filter(file == file_meta["filename"]))
DeleteFilePoints(t) ==
    /\ UNCHANGED requests
    /\ th[t].pc = "df_delete"
    /\ LET r == [th[t] EXCEPT !.calls = @ + 1]
       IN \E o \in Calls(colls, delete(colls, heap[r.sid].collection, r.filename), {}) :
            /\ Inject(o)
            /\ IF o.err = None
               THEN th' = [th EXCEPT ![t] = [r EXCEPT !.pc = "df_del"]]
               ELSE Raise(t, r, HTTPException(500, "Failed to delete file vectors"), o.err)
    /\ UNCHANGED <<VECTOR_STORES, heap, uuid>>

\* del meta["files"][file_id]; return {"status": "deleted"}
DeleteFileRecord(t) ==
    /\ UNCHANGED requests
    /\ th[t].pc = "df_del"
    /\ LET r == th[t]
       IN IF r.fid \in DOMAIN heap[r.sid].files
          THEN /\ heap' = [heap EXCEPT ![r.sid].files =
                             [f \in DOMAIN @ \ {r.fid} |-> @[f]]]
               /\ Return(t, r, 200, [status |-> "deleted"])
          ELSE /\ Raise(t, r, HTTPException(500, "Failed to delete file vectors"), "KeyError")
               /\ UNCHANGED heap
    /\ UNCHANGED <<VECTOR_STORES, colls, uuid, qdrant_faults>>

(* ------------------------------ query_vectors -------------------------- *)
\* query_vectors looking the store up with pop instead of get
QueryPopsStore(t) ==
    /\ Accept(t)
    /\ \E store_id \in Ids :
         LET q == [Idle EXCEPT !.op = "query_vectors", !.sid = store_id]
         IN /\ VECTOR_STORES' = Pop(VECTOR_STORES, store_id)
            /\ IF ~Registered(store_id)
               THEN Raise(t, q, HTTPException(404, "Vector store not found"), None)
               ELSE \E top_k \in 1..MaxTopK, embedded \in BOOLEAN :
                    LET r == [q EXCEPT !.top_k = top_k]
                    IN IF ~embedded
                       THEN Raise(t, r, HTTPException(500, "Failed to embed query"), "HTTPError")
                       ELSE th' = [th EXCEPT ![t] = [r EXCEPT !.pc = "q_search"]]
    /\ UNCHANGED <<heap, colls, uuid, qdrant_faults>>

\* meta = VECTOR_STORES.get(store_id); embed the query text
QueryStart(t) ==
    /\ Accept(t)
    /\ \E store_id \in Ids :
         LET q == [Idle EXCEPT !.op = "query_vectors", !.sid = store_id]
         IN IF ~Registered(store_id)
            THEN Raise(t, q, HTTPException(404, "Vector store not found"), None)
            ELSE \E top_k \in 1..MaxTopK, embedded \in BOOLEAN :
                 LET r == [q EXCEPT !.top_k = top_k]
                 IN IF ~embedded
                    THEN Raise(t, r, HTTPException(500, "Failed to embed query"), "HTTPError")
                    ELSE th' = [th EXCEPT ![t] = [r EXCEPT !.pc = "q_search"]]
    /\ UNCHANGED <<VECTOR_STORES, heap, colls, uuid, qdrant_faults>>

\* hits = qdrant.search(meta["collection"], q_vec, limit=req.top_k)
QuerySearch(t) ==
    /\ UNCHANGED requests
    /\ th[t].pc = "q_search"
    /\ LET r == [th[t] EXCEPT !.calls = @ + 1]
       IN \/ /\ \E o \in search(colls, heap[r.sid].collection, EmbedDim, r.top_k) :
                  IF o.err = None
                  THEN Return(t, r, 200, o.hits)
                  ELSE Raise(t, r, HTTPException(500, "Search operation failed"), o.err)
             /\ UNCHANGED qdrant_faults
          \/ /\ qdrant_faults < MaxFaults
             /\ qdrant_faults' = qdrant_faults + 1
             /\ Raise(t, r, HTTPException(500, "Search operation failed"), "Unavailable")
    /\ UNCHANGED <<VECTOR_STORES, heap, colls, uuid>>

(* ------------------------------ read handlers -------------------------- *)
\* What the GET handlers answer in a state; they change nothing, so they are
\* operators, not steps.
\* [{"id", "name", "dimension", "distance"} for sid, m in VECTOR_STORES.items()]
list_vector_stores ==
    [i \in 1..Len(VECTOR_STORES) |->
       LET m == heap[VECTOR_STORES[i]]
       IN [id |-> VECTOR_STORES[i], name |-> m.name, dimension |-> m.dimension,
           distance |-> m.distance]]

\* the 200 answer of GET /vector_stores/{store_id}
get_vector_store(store_id) == Full(store_id, heap[store_id])

\* the 200 answer of GET /vector_stores/{store_id}/files
list_files(store_id) == heap[store_id].files

\* the 200 answer of GET /vector_stores/{store_id}/files/{file_id}
get_file(store_id, file_id) == heap[store_id].files[file_id]

(* ------------------------------ the service ---------------------------- *)
Init ==
    /\ VECTOR_STORES = <<>>
    /\ heap = [s \in {} |-> None]
    /\ colls = [n \in {} |-> None]
    /\ uuid = 1
    /\ qdrant_faults = 0
    /\ requests = 0
    /\ th = [t \in Threads |-> Idle]

Next ==
    \E t \in Threads :
       \/ CreateRecreate(t)
       \/ CreateIndex(t)
       \/ CreateRegister(t)
       \/ UpdateStart(t)
       \/ UpdateRecreate(t)
       \/ UpdateIndex(t)
       \/ UpdateDistance(t)
       \/ DeleteStart(t)
       \/ DeleteDrop(t)
       \/ UploadStart(t)
       \/ UploadEmbed(t)
       \/ UploadUpsert(t)
       \/ UploadRecord(t)
       \/ DeleteFileStart(t)
       \/ DeleteFilePoints(t)
       \/ DeleteFileRecord(t)
       \/ QueryStart(t)
       \/ QuerySearch(t)

Spec == Init /\ [][Next]_vars

(* ------------------------------ properties ----------------------------- *)
\* thread t takes this step: it accepts a request, or moves on in its handler
Acts(t) ==
    \/ requests' # requests /\ Free(t) /\ \A u \in 1..(t - 1) : ~Free(u)
    \/ ~Free(t) /\ th'[t] # th[t]

Answered(t, op, status) ==
    th[t].pc = "done" /\ th[t].op = op /\ th[t].status = status

Quiet == \A t \in Threads : Free(t)

\* C1: the page count a successful ingest returns, and the one it records,
\* is the number of points it upserted.
C1_PageCountIsPointsUpserted ==
    \A t \in Threads :
       Answered(t, "upload_file", 201) =>
          /\ th[t].body.pages = Len(th[t].points)
          /\ th[t].fid \in DOMAIN heap[th[t].sid].files =>
                heap[th[t].sid].files[th[t].fid].pages = Len(th[t].points)

\* C2: a delete whose collection drop fails leaves the store in the registry,
\* with the metadata and file map it had.
C2_FailedDeleteKeepsEntry ==
    [][\A t \in Threads :
         (th[t].pc = "d_drop" /\ th'[t].status = 500) =>
            /\ Has(VECTOR_STORES', th[t].sid)
            /\ heap'[th[t].sid] = heap[th[t].sid]]_vars

\* C3: no step of an ingest changes the registry except the one that records
\* the file, and that step is only reached through an upsert that returned; an
\* ingest that fails never reaches it.
C3_FailedIngestRecordsNothing ==
    [][\A t \in Threads :
         (Acts(t) /\ th'[t].op = "upload_file") =>
            /\ th[t].pc # "up_record" => VECTOR_STORES' = VECTOR_STORES /\ heap' = heap
            /\ th'[t].pc = "up_record" =>
                  /\ th[t].pc = "up_upsert"
                  /\ colls' = upsert(colls, heap[th[t].sid].collection,
                                     th[t].points, EmbedDim).colls
                  /\ colls' # colls
            /\ th[t].pc = "up_record" => th'[t].status = 201
            /\ th'[t].status = 201 => th[t].pc = "up_record"]_vars

\* an ingest failed at the upsert and the store's file map is still empty
C3_Witness ==
    \E t \in Threads :
       /\ Answered(t, "upload_file", 500)
       /\ th[t].calls = 1
       /\ Registered(th[t].sid)
       /\ heap[th[t].sid].files = NoFiles

\* C4: no step of a create that fails changes the registry: not the set of
\* store ids, not any store's metadata.
C4_FailedCreateRegistersNothing ==
    [][\A t \in Threads :
         (Acts(t) /\ th'[t].op = "create_vector_store" /\ th'[t].status # 201) =>
            /\ VECTOR_STORES' = VECTOR_STORES
            /\ heap' = heap
            /\ ~Has(VECTOR_STORES', th'[t].sid)]_vars

\* a create failed at the payload index, next to a store that is registered
C4_Witness ==
    \E t \in Threads :
       /\ Answered(t, "create_vector_store", 500)
       /\ th[t].calls = 2
       /\ ~Registered(th[t].sid)
       /\ VECTOR_STORES # <<>>

\* C5: a delete of a store id the registry does not hold, or of a file id the
\* store's file map does not hold (or of any file id of a store that is not
\* there), is answered 404 at once, with no call to the vector database, and
\* changes neither the registry nor a collection.
C5_DeleteOfNothingIsNotFound ==
    [][\A t \in Threads :
         (/\ Acts(t) /\ Free(t)
          /\ \/ th'[t].op = "delete_vector_store" /\ ~Registered(th'[t].sid)
             \/ th'[t].op = "delete_file" /\ ~HasFile(th'[t].sid, th'[t].fid)) =>
            /\ th'[t].pc = "done"
            /\ th'[t].status = 404
            /\ th'[t].calls = 0
            /\ UNCHANGED <<VECTOR_STORES, heap, colls, qdrant_faults>>]_vars

\* a file id that is not there was deleted from a store that is, and whose
\* collection holds points
C5_Witness ==
    \E t \in Threads :
       /\ Answered(t, "delete_file", 404)
       /\ Registered(th[t].sid)
       /\ heap[th[t].sid].files # NoFiles
       /\ th[t].fid \notin DOMAIN heap[th[t].sid].files
       /\ CollName(th[t].sid) \in DOMAIN colls
       /\ colls[CollName(th[t].sid)].points # EmptyBag

\* the points of collection c of database d whose payload names file f
FilePoints(d, c, f) ==
    IF c \notin DOMAIN d THEN EmptyBag
    ELSE [p \in {q \in DOMAIN d[c].points : q.file = f} |-> d[c].points[p]]

\* a step that adds to collection c a point naming file f is the upsert of
\* an upload of a file named f into c
OnlyUpsertAdds ==
    \A c \in DOMAIN colls', f \in Filenames :
       BagCardinality(FilePoints(colls', c, f)) > BagCardinality(FilePoints(colls, c, f)) =>
          \E t \in Threads :
             /\ Acts(t)
             /\ th[t].pc = "up_upsert"
             /\ th[t].filename = f
             /\ heap[th[t].sid].collection = c

\* the hits a query answers with are points the collection holds when it is
\* searched
HitsAreStored ==
    \A t \in Threads :
       (th[t].pc = "q_search" /\ th'[t].status = 200) =>
          /\ heap[th[t].sid].collection \in DOMAIN colls
          /\ th'[t].body \sqsubseteq colls[heap[th[t].sid].collection].points

\* C6: a file delete is answered 200 only after its filtered delete returned,
\* and when that delete returns the collection holds no point naming the
\* file; from then on a point naming the file only comes from the upsert of
\* an upload of a file of that name, and a query answers with stored points.
C6_DeletedFileHasNoPoints ==
    [][/\ \A t \in Threads :
            /\ (th[t].pc = "df_delete" /\ th'[t].pc = "df_del") =>
                  FilePoints(colls', heap[th[t].sid].collection, th[t].filename) = EmptyBag
            /\ (Acts(t) /\ th'[t].op = "delete_file" /\ th'[t].status = 200) =>
                  th[t].pc = "df_del"
            /\ (Acts(t) /\ th'[t].pc = "df_del") => th[t].pc = "df_delete"
       /\ OnlyUpsertAdds
       /\ HitsAreStored]_vars

\* a file was deleted from a store whose collection still holds the points
\* of another file
C6_Witness ==
    \E t \in Threads :
       /\ Answered(t, "delete_file", 200)
       /\ Registered(th[t].sid)
       /\ CollName(th[t].sid) \in DOMAIN colls
       /\ colls[CollName(th[t].sid)].points # EmptyBag
       /\ FilePoints(colls, CollName(th[t].sid), th[t].filename) = EmptyBag

\* C7: an update that changes the distance is answered 200 only after the
\* collection was recreated, and the recreation leaves the collection empty
\* with the new distance; from then on points only come from the upsert of
\* an upload, and a query answers with stored points.
C7_MetricChangeEmptiesCollection ==
    [][/\ \A t \in Threads :
            /\ (th[t].pc = "u_recreate" /\ th'[t].pc = "u_index") =>
                  /\ heap[th[t].sid].collection \in DOMAIN colls'
                  /\ colls'[heap[th[t].sid].collection].points = EmptyBag
                  /\ colls'[heap[th[t].sid].collection].distance = th[t].distance
            /\ (/\ Acts(t) /\ th'[t].op = "update_vector_store" /\ th'[t].status = 200
                /\ heap'[th'[t].sid].distance # heap[th'[t].sid].distance) =>
                  th[t].pc = "u_distance"
            /\ (Acts(t) /\ th'[t].pc = "u_distance") => th[t].pc = "u_index"
            /\ (Acts(t) /\ th'[t].pc = "u_index") => th[t].pc = "u_recreate"
       /\ OnlyUpsertAdds
       /\ HitsAreStored]_vars

\* the distance of a store with an ingested file was changed, and its
\* collection is empty
C7_Witness ==
    \E t \in Threads :
       /\ Answered(t, "update_vector_store", 200)
       /\ th[t].calls = 2
       /\ Registered(th[t].sid)
       /\ heap[th[t].sid].files # NoFiles
       /\ colls[heap[th[t].sid].collection].points = EmptyBag

\* C8: the step that answers a create 201 returns an id no store ever had,
\* after it get answers with the requested name, dimension and distance and
\* no files, and list holds the id once, with the requested values.
C8_CreateThenGetAndList ==
    [][\A t \in Threads :
         (Acts(t) /\ th'[t].op = "create_vector_store" /\ th'[t].status = 201) =>
            LET id == th[t].sid
                requested == [id |-> id, name |-> th[t].name,
                              dimension |-> th[t].dimension, distance |-> th[t].distance]
            IN /\ th[t].pc = "c_register"
               /\ ~Has(VECTOR_STORES, id)
               /\ id \notin DOMAIN heap
               /\ th'[t].body = [id |-> id, name |-> th[t].name]
               /\ Has(VECTOR_STORES', id)
               /\ get_vector_store(id)' =
                     [id |-> id, name |-> requested.name, collection |-> CollName(id),
                      dimension |-> requested.dimension, distance |-> requested.distance,
                      files |-> NoFiles]
               /\ Cardinality({i \in 1..Len(list_vector_stores') :
                                 list_vector_stores'[i].id = id}) = 1
               /\ \A i \in 1..Len(list_vector_stores') :
                     list_vector_stores'[i].id = id => list_vector_stores'[i] = requested]_vars

\* a second store was created next to one that is registered
C8_Witness ==
    \E t \in Threads :
       /\ Answered(t, "create_vector_store", 201)
       /\ Registered(th[t].sid)
       /\ Len(VECTOR_STORES) = 2

\* C9: every point of a registered store's collection names a file that
\* exactly one FileRecord of the store carries (stated for the states with
\* no request in progress and a vector database that never failed, which
\* the claim's "every reachable state" includes).
C9_PointHasExactlyOneFileRecord ==
    (Quiet /\ qdrant_faults = 0) =>
       \A i \in 1..Len(VECTOR_STORES) :
          LET meta == heap[VECTOR_STORES[i]]
          IN meta.collection \in DOMAIN colls =>
                \A p \in DOMAIN colls[meta.collection].points :
                   Cardinality({f \in DOMAIN meta.files :
                                  meta.files[f].filename = p.file}) = 1

\* What every run that serves one request at a time ends in when the vector
\* database never fails: no file-delete found its record already removed,
\* every registered store has its collection, with the distance the
\* registry holds, and every collection has its store.
AsIfSerial ==
    /\ \A t \in Threads : th[t].err # "KeyError"
    /\ \A i \in 1..Len(VECTOR_STORES) :
          LET meta == heap[VECTOR_STORES[i]]
          IN /\ meta.collection \in DOMAIN colls
             /\ colls[meta.collection].distance = meta.distance
    /\ \A c \in DOMAIN colls :
          \E i \in 1..Len(VECTOR_STORES) : heap[VECTOR_STORES[i]].collection = c

\* C10: whatever requests ran concurrently on a store, once all are answered
\* the registry, the collections and the answers are those of some run that
\* served them one after the other.
C10_MutationsSerialized == (Quiet /\ qdrant_faults = 0) => AsIfSerial

\* the service with one request in progress at a time
SerialNext == Next /\ Cardinality({t \in Threads : ~Free(t)'}) <= 1

SerialSpec == Init /\ [][SerialNext]_vars

\* C11: the collection of a registered store has the vector size the
\* registry records for the store, and no step changes the dimension or the
\* collection name of a store's metadata, which is vs_<store id>.
C11_DimensionAndCollectionFixed ==
    /\ [](\A i \in 1..Len(VECTOR_STORES) :
            LET meta == heap[VECTOR_STORES[i]]
            IN /\ meta.collection = CollName(VECTOR_STORES[i])
               /\ meta.collection \in DOMAIN colls =>
                     colls[meta.collection].size = meta.dimension)
    /\ [][\A s \in DOMAIN heap :
            /\ s \in DOMAIN heap'
            /\ heap'[s].dimension = heap[s].dimension
            /\ heap'[s].collection = heap[s].collection]_vars

\* the distance of a store whose dimension is not the embedder's was
\* changed, and its recreated collection has the store's dimension
C11_Witness ==
    \E t \in Threads :
       /\ Answered(t, "update_vector_store", 200)
       /\ th[t].calls = 2
       /\ Registered(th[t].sid)
       /\ heap[th[t].sid].dimension # EmbedDim
       /\ heap[th[t].sid].collection \in DOMAIN colls
       /\ colls[heap[th[t].sid].collection].size = heap[th[t].sid].dimension

\* C12: no step of a query, whatever it answers, changes the registry, the
\* metadata or the files of a store, or a collection.
C12_QueryIsReadOnly ==
    [][\A t \in Threads :
         (Acts(t) /\ th'[t].op = "query_vectors") =>
            UNCHANGED <<VECTOR_STORES, heap, colls>>]_vars

\* queries were answered with a hit and with a search failure, next to a
\* store that holds a file
C12_Witness ==
    /\ \E t \in Threads :
          /\ Answered(t, "query_vectors", 200)
          /\ th[t].body # EmptyBag
          /\ Registered(th[t].sid)
          /\ heap[th[t].sid].files # NoFiles
    /\ \E t \in Threads :
          /\ Answered(t, "query_vectors", 500)
          /\ th[t].calls = 1

\* C13: an update that gives a name and no distance is answered 200 without
\* a call to the vector database; it sets the store's name to the given
\* name, answers with the metadata carrying that name, and changes nothing
\* else of the registry and nothing of the collections.
C13_RenameIsMetadataOnly ==
    [][\A t \in Threads :
         (/\ Acts(t)
          /\ th'[t].op = "update_vector_store" /\ th'[t].status = 200
          /\ th'[t].name # None /\ th'[t].distance = None) =>
            LET id == th'[t].sid
            IN /\ th'[t].calls = 0
               /\ heap' = [heap EXCEPT ![id].name = th'[t].name]
               /\ th'[t].body = Full(id, [heap[id] EXCEPT !.name = th'[t].name])
               /\ UNCHANGED <<VECTOR_STORES, colls>>]_vars

\* C14: the embedding loop builds, for the pages whose embedding call
\* returned and for no other, one point each with the file's name and the
\* page's index among the parsed pages, in ascending page order; with no
\* such page the request ends without a call to the vector database; the
\* one upsert of the request adds exactly these points to the collection.
C14_FailedPagesAreSkipped ==
    [][\A t \in Threads :
         /\ (th[t].pc = "up_embed" /\ th'[t].pc = "done") =>
               /\ th'[t].points = <<>>
               /\ th'[t].calls = 0
               /\ th'[t].status = 500
               /\ UNCHANGED colls
         /\ (th[t].pc = "up_embed" /\ th'[t].pc = "up_upsert") =>
               LET e == th'[t].embedded
                   points == th'[t].points
               IN /\ DOMAIN e = 1..Len(th[t].pages)
                  /\ Len(points) = Cardinality({i \in DOMAIN e : e[i]})
                  /\ Len(points) > 0
                  /\ \A i \in DOMAIN e :
                        e[i] <=> \E k \in 1..Len(points) : points[k].page = i - 1
                  /\ \A k \in 1..Len(points) : points[k].file = th[t].filename
                  /\ \A k \in 1..(Len(points) - 1) : points[k].page < points[k + 1].page
         /\ (th[t].pc = "up_upsert" /\ th'[t].pc = "up_record") =>
               LET c == heap[th[t].sid].collection
               IN /\ th'[t].calls = 1
                  /\ th'[t].points = th[t].points
                  /\ colls' = [colls EXCEPT ![c].points = @ (+) PointsBag(th[t].points)]]_vars

\* a file of two pages was ingested with the embedding of its first page
\* failing: the one point upserted carries page index 1
C14_Witness ==
    \E t \in Threads :
       /\ Answered(t, "upload_file", 201)
       /\ th[t].body.pages = 2
       /\ th[t].points = <<PointStruct(th[t].filename, 1)>>
       /\ colls[heap[th[t].sid].collection].points = PointsBag(th[t].points)

\* C15: the filtered delete of a file delete removes from the collection
\* every point that names the file, whichever upload put it there, and no
\* other point; the step that answers 200 removes from the store's files
\* the record under the given file id and no other record.
C15_DeleteTakesAllPointsOfTheName ==
    [][\A t \in Threads :
         /\ (th[t].pc = "df_delete" /\ th'[t].pc = "df_del") =>
               LET c == heap[th[t].sid].collection
               IN /\ c \in DOMAIN colls
                  /\ colls' = [colls EXCEPT ![c].points =
                                 [p \in {q \in DOMAIN @ : q.file # th[t].filename} |-> @[p]]]
                  /\ UNCHANGED heap
         /\ (th[t].pc = "df_del" /\ th'[t].status = 200) =>
               LET files == heap[th[t].sid].files
               IN /\ th[t].fid \in DOMAIN files
                  /\ heap' = [heap EXCEPT ![th[t].sid].files =
                                [f \in DOMAIN files \ {th[t].fid} |-> files[f]]]
                  /\ UNCHANGED colls]_vars

\* one of two files uploaded under the same name was deleted: the other is
\* still listed, and the collection holds no point of that name
C15_Witness ==
    \E t \in Threads :
       /\ Answered(t, "delete_file", 200)
       /\ Registered(th[t].sid)
       /\ \E f \in DOMAIN list_files(th[t].sid) :
             /\ f # th[t].fid
             /\ get_file(th[t].sid, f).filename = th[t].filename
             /\ get_file(th[t].sid, f).pages > 0
       /\ heap[th[t].sid].collection \in DOMAIN colls
       /\ FilePoints(colls, heap[th[t].sid].collection, th[t].filename) = EmptyBag

\* C16: a file delete whose filtered delete fails is answered 500 and leaves
\* the registry as it was, the file's record included; a record leaves a
\* store's files only in the last step of a file delete for it, a step that
\* is reached only by a filtered delete that returned.
C16_RecordOutlivesFailedDelete ==
    [][/\ \A t \in Threads :
            /\ (th[t].pc = "df_delete" /\ th'[t].pc = "done") =>
                  /\ th'[t].status = 500
                  /\ UNCHANGED <<VECTOR_STORES, heap>>
            /\ (Acts(t) /\ th'[t].pc = "df_del") =>
                  /\ th[t].pc = "df_delete"
                  /\ UNCHANGED qdrant_faults
       /\ \A s \in DOMAIN heap :
            \A f \in DOMAIN heap[s].files :
               f \notin DOMAIN heap'[s].files =>
                  \E t \in Threads :
                     th[t].pc = "df_del" /\ th[t].sid = s /\ th[t].fid = f /\ Acts(t)]_vars

\* a file delete was answered 500 after its filtered delete failed, and the
\* file is still listed under its id
C16_Witness ==
    \E t \in Threads :
       /\ Answered(t, "delete_file", 500)
       /\ th[t].err = "Unavailable"
       /\ HasFile(th[t].sid, th[t].fid)
       /\ get_file(th[t].sid, th[t].fid).filename = th[t].filename

\* C17: when two file deletes for the same store and file id were served by
\* two threads, the vector database never failed and one of them was
\* answered 200, the other was answered 404.
C17_SecondFileDeleteIsNotFound ==
    \A t, u \in Threads :
       (/\ t # u
        /\ qdrant_faults = 0
        /\ Answered(t, "delete_file", 200)
        /\ th[u].pc = "done" /\ th[u].op = "delete_file"
        /\ th[u].sid = th[t].sid /\ th[u].fid = th[t].fid) =>
          th[u].status = 404

\* C18: with no request in progress, the distance the registry records for a
\* store is the distance of the store's collection.
C18_RegistryDistanceIsCollectionDistance ==
    Quiet =>
       \A i \in 1..Len(VECTOR_STORES) :
          LET meta == heap[VECTOR_STORES[i]]
          IN meta.collection \in DOMAIN colls =>
                colls[meta.collection].distance = meta.distance

\* C19: when the second request of a run is an update that is answered 500
\* (the first request then created the store, and no other request touched
\* it), the store still has the name it was created with and no files.
C19_FailedUpdateKeepsMetadata ==
    \A t \in Threads :
       (requests = 2 /\ Answered(t, "update_vector_store", 500)) =>
          /\ heap[th[t].sid].name = "pytest_store"
          /\ heap[th[t].sid].files = NoFiles
          /\ heap[th[t].sid].collection = CollName(th[t].sid)

\* C20: with no request in progress, every collection of the vector database
\* is the collection of exactly one registered store.
C20_NoOrphanCollection ==
    Quiet =>
       \A c \in DOMAIN colls :
          Cardinality({i \in 1..Len(VECTOR_STORES) :
                         heap[VECTOR_STORES[i]].collection = c}) = 1

====
